---------------------------- MODULE Spec2Model ----------------------------
(***************************************************************************)
(* Model of ssh_cmd.py: the __main__ block and run_ssh_command.            *)
(*                                                                         *)
(* Text is a sequence of one-character strings, so that split, startswith, *)
(* join and the f-string of the sudo wrapper are computed character by     *)
(* character.  A byte stream is a sequence of bytes; "xFF" stands for a    *)
(* byte that is not valid UTF-8 and "uFFFD" for the replacement character. *)
(* The SSH library is the environment: every call on the client either     *)
(* completes, raises, or meets a remote side that stops answering.  The    *)
(* encoding of the process's standard streams is part of the environment   *)
(* too: sys.stdout encodes strictly, so a print of a character its         *)
(* encoding lacks raises inside the try block; sys.stderr encodes with     *)
(* backslashreplace and writes such a character as its escape.             *)
(***************************************************************************)
EXTENDS Integers, Sequences, FiniteSets

(* ------------------------------ bounds --------------------------------- *)

\* most words after the script name in sys.argv
MaxArgs == 2
\* most '\n'-separated segments of the remote stdout
MaxOutLines == 2
\* most '\n'-separated segments of the remote stderr
MaxErrLines == 2

(* ------------------------- program constants --------------------------- *)

NL == "\n"
Port == 22
ConnectTimeout == 30
ExecTimeout == 120
ExceptStatus == 1
UsageStatus == 1

HOST == "192.168.0.75"
USER == "admin"
PASS == <<"a", "d", "m", "i", "n">>

SudoFlag == <<"-", "-", "s", "u", "d", "o">>
SudoPrefix == <<"[", "s", "u", "d", "o", "]">>
EchoPrefix == <<"e", "c", "h", "o", " ", "'">>
SudoPipe == <<"'", " ", "|", " ", "s", "u", "d", "o", " ", "-", "S", " ">>
ErrorPrefix == <<"E", "r", "r", "o", "r", ":", " ">>
UsageText ==
  <<"U", "s", "a", "g", "e", ":", " ", "p", "y", "t", "h", "o", "n", " ",
    "s", "s", "h", "_", "c", "m", "d", ".", "p", "y", " ",
    "[", "-", "-", "s", "u", "d", "o", "]", " ",
    "<", "c", "o", "m", "m", "a", "n", "d", ">">>

(* --------------------------- input domains ----------------------------- *)

ScriptName == <<"s", "s", "h", "_", "c", "m", "d", ".", "p", "y">>
Words == {SudoFlag, <<"l", "s">>}
Passwords == {PASS, <<"s", "3">>}
Commands == {<<>>, <<"l", "s", " ", "-", "l">>}
OutFragments == {<<>>, <<"o", "xFF">>, <<"[", "s", "u", "d", "o", "]", " ", "p">>}
ErrFragments == {<<>>, <<"[", "s", "u", "d", "o", "]", " ", "p">>,
                 <<"xFF", "[", "s", "u", "d", "o", "]">>}
Encodings == {"utf-8", "ascii"}
RemoteStatuses == {0, 1, 2}
Outcomes == {"ok", "error", "stall"}
TimeoutMessage == <<"t", "i", "m", "e", "d", " ", "o", "u", "t">>
FailureMessage == <<"f", "a", "i", "l", "e", "d">>
\* the parts of str(e) of the UnicodeEncodeError of the ascii codec
EncodeErrorCodec ==
  <<"'", "a", "s", "c", "i", "i", "'", " ", "c", "o", "d", "e", "c", " ",
    "c", "a", "n", "'", "t", " ", "e", "n", "c", "o", "d", "e", " ">>
\* one character without an encoding: the character and its position
EncodeErrorOne ==
  <<"c", "h", "a", "r", "a", "c", "t", "e", "r", " ", "'", "\\", "u", "f",
    "f", "f", "d", "'", " ", "i", "n", " ", "p", "o", "s", "i", "t", "i",
    "o", "n", " ">>
\* a run of them: the positions of the first and the last
EncodeErrorMany ==
  <<"c", "h", "a", "r", "a", "c", "t", "e", "r", "s", " ", "i", "n", " ",
    "p", "o", "s", "i", "t", "i", "o", "n", " ">>
EncodeErrorTail ==
  <<":", " ", "o", "r", "d", "i", "n", "a", "l", " ", "n", "o", "t", " ",
    "i", "n", " ", "r", "a", "n", "g", "e", "(", "1", "2", "8", ")">>
\* the escape backslashreplace writes for U+FFFD
ReplacementEscape == <<"\\", "u", "f", "f", "f", "d">>

(* ----------------------------- text helpers ---------------------------- *)

Range(s) == {s[i] : i \in 1..Len(s)}

\* str.startswith
StartsWith(l, p) == Len(l) >= Len(p) /\ SubSeq(l, 1, Len(p)) = p

\* str.split(sep) for a one-character separator
RECURSIVE Split(_, _)
Split(s, sep) ==
  IF sep \notin Range(s)
    THEN <<s>>
    ELSE LET i == CHOOSE k \in 1..Len(s) :
                    s[k] = sep /\ \A j \in 1..(k - 1) : s[j] /= sep
         IN  <<SubSeq(s, 1, i - 1)>> \o Split(SubSeq(s, i + 1, Len(s)), sep)

\* sep.join(lines)
RECURSIVE Join(_, _)
Join(lines, sep) ==
  IF lines = <<>> THEN <<>>
  ELSE IF Len(lines) = 1 THEN lines[1]
  ELSE lines[1] \o sep \o Join(Tail(lines), sep)

\* bytes.decode('utf-8', errors='replace')
Decode(bytes) ==
  [i \in 1..Len(bytes) |-> IF bytes[i] = "xFF" THEN "uFFFD" ELSE bytes[i]]

\* str(n) of a natural number
RECURSIVE Decimal(_)
Decimal(n) ==
  LET d == <<"0", "1", "2", "3", "4", "5", "6", "7", "8", "9">>[(n % 10) + 1]
  IN  IF n < 10 THEN <<d>> ELSE Append(Decimal(n \div 10), d)

\* whether the encoding has every character of the text
CanEncode(text, encoding) == encoding = "utf-8" \/ "uFFFD" \notin Range(text)

\* str(e) of the UnicodeEncodeError a strict ascii stream raises: it names
\* the first run of characters without an encoding, by 0-based position;
\* a run of one character is named with the character, a longer one by
\* the positions of its first and last character
EncodeErrorMessage(text) ==
  LET first == CHOOSE i \in 1..Len(text) :
                 text[i] = "uFFFD" /\ \A j \in 1..(i - 1) : text[j] /= "uFFFD"
      last == CHOOSE j \in first..Len(text) :
                /\ \A i \in first..j : text[i] = "uFFFD"
                /\ (j = Len(text) \/ text[j + 1] /= "uFFFD")
  IN  EncodeErrorCodec
      \o (IF last = first
            THEN EncodeErrorOne \o Decimal(first - 1)
            ELSE EncodeErrorMany \o Decimal(first - 1) \o <<"-">>
                 \o Decimal(last - 1))
      \o EncodeErrorTail

\* what a stream with errors='backslashreplace' writes for the text
RECURSIVE Backslashreplace(_, _)
Backslashreplace(text, encoding) ==
  IF text = <<>> THEN <<>>
  ELSE (IF encoding = "ascii" /\ Head(text) = "uFFFD"
          THEN ReplacementEscape ELSE <<Head(text)>>)
       \o Backslashreplace(Tail(text), encoding)

\* print(text) on sys.stdout when the encoding has the text: the text and
\* a newline, as one write
PrintOut(channel, text) == Append(channel, text \o <<NL>>)

\* print(text, file=sys.stderr): never raises on a character
PrintErr(channel, text, encoding) ==
  Append(channel, Backslashreplace(text \o <<NL>>, encoding))

\* the byte streams a remote command can produce within the bounds
StreamsOf(fragments, n) ==
  {Join(f, <<NL>>) : f \in UNION {[1..k -> fragments] : k \in 1..n}}
OutStreams == StreamsOf(OutFragments, MaxOutLines)
ErrStreams == StreamsOf(ErrFragments, MaxErrLines)

\* the argument vectors: the script name and up to MaxArgs words
ArgvSet == {<<ScriptName>> \o a : a \in UNION {[1..k -> Words] : k \in 0..MaxArgs}}

(* ------------------------- run_ssh_command ----------------------------- *)

\* the comprehension [l for l in text.split('\n') if not l.startswith('[sudo]')]
KeepLine_anywhere(l) ==
  ~ \E i \in 1..Len(l) : StartsWith(SubSeq(l, i, Len(l)), SudoPrefix)
KeepLine(l) == ~ StartsWith(l, SudoPrefix)
FilterSudo(text) == SelectSeq(Split(text, NL), KeepLine)

\* the command handed to exec_command
WrapCommand_unquoted(password, cmd, sudo) ==
  IF sudo THEN <<"e", "c", "h", "o", " ">> \o password \o
               <<" ", "|", " ", "s", "u", "d", "o", " ", "-", "S", " ">> \o cmd
          ELSE cmd
WrapCommand(password, cmd, sudo) ==
  IF sudo THEN EchoPrefix \o password \o SudoPipe \o cmd ELSE cmd

\* the line the except clause prints
ErrorLine_bare(e) == e
ErrorLine(e) == ErrorPrefix \o e

\* what str(e) is for the exception of a failed or a timed-out call
Message(outcome) == IF outcome = "stall" THEN TimeoutMessage ELSE FailureMessage

\* the statements of the try block, in order
NextStep_eager(step) ==
  CASE step = "connect" -> "exec"
    [] step = "exec" -> "read_out"
    [] step = "read_out" -> "emit"
    [] step = "emit" -> "read_err"
    [] step = "read_err" -> "status"
    [] step = "status" -> "finally"
NextStep(step) ==
  CASE step = "connect" -> "exec"
    [] step = "exec" -> "read_out"
    [] step = "read_out" -> "read_err"
    [] step = "read_err" -> "emit"
    [] step = "emit" -> "status"
    [] step = "status" -> "finally"

\* the value of the return statement of the try block
ReturnStatus_flag(status) == IF status = 0 THEN 0 ELSE ExceptStatus
ReturnStatus(status) == status

\* client.close() in the finally clause
CloseClient_leak(c) == c
CloseClient(c) == Append(c, "close")

\* sys.exit(code): the status the process ends with
SysExit(code) == code % 256

VARIABLES
  pc,            \* where the program is
  io_encoding,   \* the encoding of sys.stdout and sys.stderr
  via_main,      \* TRUE when run_ssh_command was called by the __main__ block
  sys_argv,      \* sys.argv
  arg_password,  \* parameter password
  arg_command,   \* parameter command, as passed by the caller
  use_sudo,      \* parameter use_sudo
  command,       \* local command, rewritten at line 15
  calls,         \* the operations made on the client, in order
  connect_calls, \* the arguments of client.connect
  exec_calls,    \* the arguments of client.exec_command
  output,        \* local output
  error,         \* local error
  sys_stdout,    \* what was written to sys.stdout, one entry per print
  sys_stderr,    \* what was written to sys.stderr, one entry per print
  remote_status, \* <<s>> once the remote side has reported exit status s
  raised_at,     \* the step whose call raised, or "none"
  stalled_at,    \* the step at which the remote side stopped answering, or "none"
  exc,           \* str(e) of the exception caught
  result,        \* <<v>> once run_ssh_command has returned v
  exit_status    \* <<v>> once the process has exited with status v

vars == <<pc, io_encoding, via_main, sys_argv, arg_password, arg_command, use_sudo, command,
          calls, connect_calls, exec_calls, output, error, sys_stdout,
          sys_stderr, remote_status, raised_at, stalled_at, exc, result,
          exit_status>>

Init ==
  /\ pc = "start"
  /\ io_encoding \in Encodings
  /\ via_main = FALSE
  /\ sys_argv = <<>>
  /\ arg_password = <<>>
  /\ arg_command = <<>>
  /\ use_sudo = FALSE
  /\ command = <<>>
  /\ calls = <<>>
  /\ connect_calls = <<>>
  /\ exec_calls = <<>>
  /\ output = <<>>
  /\ error = <<>>
  /\ sys_stdout = <<>>
  /\ sys_stderr = <<>>
  /\ remote_status = <<>>
  /\ raised_at = "none"
  /\ stalled_at = "none"
  /\ exc = <<>>
  /\ result = <<>>
  /\ exit_status = <<>>

\* a call on the client that raised: control goes to the except clause
Raise(step, outcome) ==
  /\ pc' = "except"
  /\ raised_at' = step
  /\ stalled_at' = IF outcome = "stall" THEN step ELSE stalled_at
  /\ exc' = Message(outcome)

\* the __main__ block, up to the call of run_ssh_command or the usage exit
Main ==
  /\ pc = "start"
  /\ UNCHANGED io_encoding
  /\ \E argv \in ArgvSet :
       /\ sys_argv' = argv
       /\ via_main' = TRUE
       /\ IF Len(argv) < 2
            THEN /\ sys_stdout' = PrintOut(sys_stdout, UsageText)
                 /\ exit_status' = <<SysExit(UsageStatus)>>
                 /\ pc' = "exited"
                 /\ UNCHANGED <<arg_password, arg_command, use_sudo, command>>
            ELSE /\ use_sudo' = (SudoFlag \in Range(argv))
                 /\ arg_command' =
                      Join(SelectSeq(Tail(argv), LAMBDA a : a /= SudoFlag), <<" ">>)
                 /\ command' = arg_command'
                 /\ arg_password' = PASS
                 /\ pc' = "connect"
                 /\ UNCHANGED <<sys_stdout, exit_status>>
  /\ UNCHANGED <<calls, connect_calls, exec_calls, output, error, sys_stderr,
                 remote_status, raised_at, stalled_at, exc, result>>

\* run_ssh_command called by an importing program
Call ==
  /\ pc = "start"
  /\ UNCHANGED io_encoding
  /\ \E p \in Passwords, c \in Commands, s \in BOOLEAN :
       /\ arg_password' = p
       /\ arg_command' = c
       /\ command' = c
       /\ use_sudo' = s
  /\ pc' = "connect"
  /\ UNCHANGED <<via_main, sys_argv, calls, connect_calls, exec_calls, output,
                 error, sys_stdout, sys_stderr, remote_status, raised_at,
                 stalled_at, exc, result, exit_status>>

\* line 12: client.connect
Connect ==
  /\ pc = "connect"
  /\ UNCHANGED io_encoding
  /\ calls' = Append(calls, "connect")
  /\ connect_calls' = Append(connect_calls,
       [host |-> IF via_main THEN HOST ELSE "host", port |-> Port,
        username |-> IF via_main THEN USER ELSE "user",
        password |-> arg_password, timeout |-> ConnectTimeout])
  /\ \E r \in Outcomes :
       IF r = "ok"
         THEN /\ pc' = NextStep("connect")
              /\ UNCHANGED <<raised_at, stalled_at, exc>>
         ELSE Raise("connect", r)
  /\ UNCHANGED <<via_main, sys_argv, arg_password, arg_command, use_sudo,
                 command, exec_calls, output, error, sys_stdout, sys_stderr,
                 remote_status, result, exit_status>>

\* lines 14-17: the sudo wrapper and client.exec_command
ExecCommand ==
  /\ pc = "exec"
  /\ UNCHANGED io_encoding
  /\ command' = WrapCommand(arg_password, command, use_sudo)
  /\ calls' = Append(calls, "exec_command")
  /\ exec_calls' = Append(exec_calls,
       [command |-> command', timeout |-> ExecTimeout, get_pty |-> use_sudo])
  /\ \E r \in Outcomes :
       IF r = "ok"
         THEN /\ pc' = NextStep("exec")
              /\ UNCHANGED <<raised_at, stalled_at, exc>>
         ELSE Raise("exec", r)
  /\ UNCHANGED <<via_main, sys_argv, arg_password, arg_command, use_sudo,
                 connect_calls, output, error, sys_stdout, sys_stderr,
                 remote_status, result, exit_status>>

\* line 19: stdout.read().decode(...)
ReadStdout ==
  /\ pc = "read_out"
  /\ UNCHANGED io_encoding
  /\ calls' = Append(calls, "stdout.read")
  /\ \E r \in Outcomes :
       IF r = "ok"
         THEN /\ \E bytes \in OutStreams : output' = Decode(bytes)
              /\ pc' = NextStep("read_out")
              /\ UNCHANGED <<raised_at, stalled_at, exc>>
         ELSE /\ Raise("read_out", r)
              /\ UNCHANGED output
  /\ UNCHANGED <<via_main, sys_argv, arg_password, arg_command, use_sudo,
                 command, connect_calls, exec_calls, error, sys_stdout,
                 sys_stderr, remote_status, result, exit_status>>

\* line 20: stderr.read().decode(...)
ReadStderr ==
  /\ pc = "read_err"
  /\ UNCHANGED io_encoding
  /\ calls' = Append(calls, "stderr.read")
  /\ \E r \in Outcomes :
       IF r = "ok"
         THEN /\ \E bytes \in ErrStreams : error' = Decode(bytes)
              /\ pc' = NextStep("read_err")
              /\ UNCHANGED <<raised_at, stalled_at, exc>>
         ELSE /\ Raise("read_err", r)
              /\ UNCHANGED error
  /\ UNCHANGED <<via_main, sys_argv, arg_password, arg_command, use_sudo,
                 command, connect_calls, exec_calls, output, sys_stdout,
                 sys_stderr, remote_status, result, exit_status>>

\* lines 22-29: the filtered streams are printed.  The prints are inside
\* the try block: when sys.stdout cannot encode the filtered output, print
\* raises before anything is written and control goes to the except clause
Emit ==
  /\ pc = "emit"
  /\ UNCHANGED io_encoding
  /\ LET out_text == Join(FilterSudo(output), <<NL>>)
         err_lines == FilterSudo(error)
     IN  IF output /= <<>> /\ ~ CanEncode(out_text, io_encoding)
           THEN /\ pc' = "except"
                /\ raised_at' = "emit"
                /\ exc' = EncodeErrorMessage(out_text)
                /\ UNCHANGED <<sys_stdout, sys_stderr>>
           ELSE /\ sys_stdout' = IF output /= <<>>
                                   THEN PrintOut(sys_stdout, out_text)
                                   ELSE sys_stdout
                /\ sys_stderr' = IF error /= <<>> /\ err_lines /= <<>>
                                   THEN PrintErr(sys_stderr,
                                                 Join(err_lines, <<NL>>),
                                                 io_encoding)
                                   ELSE sys_stderr
                /\ pc' = NextStep("emit")
                /\ UNCHANGED <<raised_at, exc>>
  /\ UNCHANGED <<via_main, sys_argv, arg_password, arg_command, use_sudo,
                 command, calls, connect_calls, exec_calls, output, error,
                 remote_status, stalled_at, result, exit_status>>

\* line 31: return stdout.channel.recv_exit_status(), a call that takes no
\* timeout: when the remote side never reports a status it never returns
RecvExitStatus ==
  /\ pc = "status"
  /\ UNCHANGED io_encoding
  /\ calls' = Append(calls, "recv_exit_status")
  /\ \E r \in Outcomes :
       CASE r = "ok" ->
              /\ \E s \in RemoteStatuses :
                   /\ remote_status' = <<s>>
                   /\ result' = <<ReturnStatus(s)>>
              /\ pc' = NextStep("status")
              /\ UNCHANGED <<raised_at, stalled_at, exc>>
         [] r = "error" ->
              /\ Raise("status", r)
              /\ UNCHANGED <<remote_status, result>>
         [] r = "stall" ->
              /\ pc' = "blocked"
              /\ stalled_at' = "status"
              /\ UNCHANGED <<remote_status, result, raised_at, exc>>
  /\ UNCHANGED <<via_main, sys_argv, arg_password, arg_command, use_sudo,
                 command, connect_calls, exec_calls, output, error, sys_stdout,
                 sys_stderr, exit_status>>

\* lines 32-34: the except clause
Except ==
  /\ pc = "except"
  /\ UNCHANGED io_encoding
  /\ sys_stderr' = PrintErr(sys_stderr, ErrorLine(exc), io_encoding)
  /\ result' = <<ExceptStatus>>
  /\ pc' = "finally"
  /\ UNCHANGED <<via_main, sys_argv, arg_password, arg_command, use_sudo,
                 command, calls, connect_calls, exec_calls, output, error,
                 sys_stdout, remote_status, raised_at, stalled_at, exc,
                 exit_status>>

\* lines 35-36: the finally clause, then the return to the caller
Finally ==
  /\ pc = "finally"
  /\ UNCHANGED io_encoding
  /\ calls' = CloseClient(calls)
  /\ pc' = IF via_main THEN "exit" ELSE "returned"
  /\ UNCHANGED <<via_main, sys_argv, arg_password, arg_command, use_sudo,
                 command, connect_calls, exec_calls, output, error, sys_stdout,
                 sys_stderr, remote_status, raised_at, stalled_at, exc, result,
                 exit_status>>

\* line 52: sys.exit(exit_code)
Exit ==
  /\ pc = "exit"
  /\ UNCHANGED io_encoding
  /\ exit_status' = <<SysExit(result[1])>>
  /\ pc' = "exited"
  /\ UNCHANGED <<via_main, sys_argv, arg_password, arg_command, use_sudo,
                 command, calls, connect_calls, exec_calls, output, error,
                 sys_stdout, sys_stderr, remote_status, raised_at, stalled_at,
                 exc, result>>

Next ==
  \/ Main
  \/ Call
  \/ Connect
  \/ ExecCommand
  \/ ReadStdout
  \/ ReadStderr
  \/ Emit
  \/ RecvExitStatus
  \/ Except
  \/ Finally
  \/ Exit

Spec == Init /\ [][Next]_vars


(* ------------------------ vocabulary of the claims --------------------- *)

\* run_ssh_command has been entered
Invoked == pc /= "start" /\ ~ (pc = "exited" /\ result = <<>>)

\* run_ssh_command has returned to its caller
Returned == Invoked /\ pc \in {"returned", "exit", "exited"}

\* the except clause has run
Handled == raised_at /= "none" /\ pc \in {"finally", "returned", "exit", "exited"}

\* lines 22-29 have run
Emitted ==
  /\ Invoked
  /\ \/ raised_at = "status"
     \/ /\ raised_at = "none"
        /\ pc \in {"status", "blocked", "finally", "returned", "exit", "exited"}

\* a line that begins with the six characters [sudo]
IsSudoLine(l) ==
  /\ Len(l) >= 6
  /\ l[1] = "[" /\ l[2] = "s" /\ l[3] = "u" /\ l[4] = "d" /\ l[5] = "o" /\ l[6] = "]"

\* a written entry that begins with Error:
IsErrorEntry(w) ==
  /\ Len(w) >= 7
  /\ SubSeq(w, 1, 6) = <<"E", "r", "r", "o", "r", ":">>
  /\ w[Len(w)] = NL

\* what sys.stderr holds of the remote stderr: all but the except clause's line
RemoteErr ==
  IF Handled THEN SubSeq(sys_stderr, 1, Len(sys_stderr) - 1) ELSE sys_stderr

\* a written entry without the newline print adds
Body(w) == SubSeq(w, 1, Len(w) - 1)

\* written is the captured text with its [sudo] lines removed and nothing else
\* changed: the other lines, in their order, as a stream of the given encoding
\* writes them; when nothing was written, no line with any character in it
\* was left out
Faithful(text, written, encoding) ==
  LET L == Split(text, NL)
      keep == {i \in 1..Len(L) : ~ IsSudoLine(L[i])}
      rank(i) == Cardinality({j \in keep : j <= i})
  IN  /\ Len(written) <= 1
      /\ written = <<>> => \A i \in keep : L[i] = <<>>
      /\ written /= <<>> =>
           LET w == written[1]
               W == Split(Body(w), NL)
           IN  /\ w[Len(w)] = NL
               /\ \A k \in 1..Len(W) : ~ IsSudoLine(W[k])
               /\ IF keep = {}
                    THEN Body(w) = <<>>
                    ELSE /\ Len(W) = Cardinality(keep)
                         /\ \A i \in keep :
                              W[rank(i)] = Backslashreplace(L[i], encoding)

\* every line is a [sudo] line, a final newline after the last one allowed
OnlySudoLines(text) ==
  LET L == Split(text, NL)
      n == IF Len(L) > 1 /\ L[Len(L)] = <<>> THEN Len(L) - 1 ELSE Len(L)
  IN  text /= <<>> /\ \A i \in 1..n : IsSudoLine(L[i])

(* -------------------------------- claims ------------------------------- *)

\* C1: in every invocation client.close() is called exactly once, and it is
\* the last operation on the connection, whichever branch was taken.
C1_CloseOnceAndLast ==
  /\ \A i \in 1..Len(calls) : calls[i] = "close" => i = Len(calls)
  /\ Returned =>
       /\ calls /= <<>>
       /\ calls[Len(calls)] = "close"
       /\ Cardinality({i \in 1..Len(calls) : calls[i] = "close"}) = 1
       /\ calls[1] = "connect"

C1_Witness ==
  /\ pc = "exited"
  /\ raised_at = "read_err"
  /\ calls = <<"connect", "exec_command", "stdout.read", "stderr.read", "close">>

\* C2: when client.connect raises, the function returns 1, an Error: line is
\* on the error channel, and exec_command is never called.
C2_ConnectFailure ==
  raised_at = "connect" =>
    /\ exec_calls = <<>>
    /\ "exec_command" \notin Range(calls)
    /\ Returned =>
         /\ result = <<1>>
         /\ \E i \in 1..Len(sys_stderr) : IsErrorEntry(sys_stderr[i])

C2_Witness ==
  /\ raised_at = "connect"
  /\ pc = "exited"
  /\ exit_status = <<1>>
  /\ calls = <<"connect", "close">>

\* C3: once the connection is up, a remote side that stops answering at any
\* step (exec_command, either read, the exit status) ends the invocation with
\* status 1 and an Error: line; the invocation never waits forever.
C3_StallEndsInvocation ==
  stalled_at \in {"exec", "read_out", "read_err", "status"} =>
    /\ pc /= "blocked"
    /\ pc \in {"finally", "returned", "exit", "exited"} =>
         /\ result = <<1>>
         /\ \E i \in 1..Len(sys_stderr) : IsErrorEntry(sys_stderr[i])

\* C4: without escalation exec_command gets the input command and no
\* pseudo-terminal; with it, echo '<password>' | sudo -S <command> and a
\* pseudo-terminal.
C4_ExecutedCommand ==
  \A i \in 1..Len(exec_calls) :
    IF use_sudo
      THEN /\ exec_calls[i].command =
                <<"e", "c", "h", "o", " ", "'">> \o arg_password \o
                <<"'", " ", "|", " ", "s", "u", "d", "o", " ", "-", "S", " ">> \o
                arg_command
           /\ exec_calls[i].get_pty = TRUE
      ELSE /\ exec_calls[i].command = arg_command
           /\ exec_calls[i].get_pty = FALSE

C4_Witness ==
  /\ Len(exec_calls) = 1
  /\ use_sudo
  /\ arg_password = <<"s", "3">>
  /\ arg_command = <<"l", "s", " ", "-", "l">>
  /\ exec_calls[1].get_pty

\* C5: when nothing raised, the function returns the remote exit status and
\* the process exits with it; 1 is returned only after an exception or when
\* the remote status is 1.
C5_ExitStatus ==
  /\ (Returned /\ raised_at = "none") =>
       /\ remote_status /= <<>>
       /\ result = remote_status
  /\ (pc = "exited" /\ Invoked /\ raised_at = "none") => exit_status = remote_status
  /\ (Returned /\ result = <<1>>) => (raised_at /= "none" \/ remote_status = <<1>>)

C5_Witness ==
  /\ pc = "exited"
  /\ raised_at = "none"
  /\ remote_status = <<2>>
  /\ exit_status = <<2>>

\* C6: no line beginning with [sudo] of a captured stream is written, and
\* the other lines are written in their original order.  (sys.stdout writes
\* a line as it is or raises; a print that raised wrote nothing.)
C6_SudoLinesFiltered ==
  /\ Emitted => /\ Faithful(output, sys_stdout, "utf-8")
                /\ Faithful(error, RemoteErr, io_encoding)
  /\ raised_at = "emit" => (sys_stdout = <<>> /\ RemoteErr = <<>>)

C6_Witness ==
  /\ Emitted
  /\ io_encoding = "utf-8"
  /\ error = <<"[", "s", "u", "d", "o", "]", " ", "p", NL,
               "uFFFD", "[", "s", "u", "d", "o", "]">>
  /\ RemoteErr = << <<"uFFFD", "[", "s", "u", "d", "o", "]", NL>> >>
  /\ output = <<"o", "uFFFD", NL, "[", "s", "u", "d", "o", "]", " ", "p">>
  /\ sys_stdout = << <<"o", "uFFFD", NL>> >>

\* C7: an error stream made only of [sudo] lines, a sudo prompt followed by
\* a newline included, leaves nothing on the error channel.
C7_OnlySudoErrorIsSilent ==
  (Emitted /\ OnlySudoLines(error)) => RemoteErr = <<>>

\* C8: a captured stdout made only of [sudo] lines leaves nothing on the
\* output channel.
C8_OnlySudoOutputIsSilent ==
  (Emitted /\ output /= <<>> /\ \A l \in Range(Split(output, NL)) : IsSudoLine(l))
    => sys_stdout = <<>>

\* C9: when no argument is left once every --sudo is removed, the program
\* prints the usage message on the error channel, exits with 1, and neither
\* connects nor executes anything.
C9_UsageWhenNoCommand ==
  (via_main /\ SelectSeq(Tail(sys_argv), LAMBDA a : a /= SudoFlag) = <<>>) =>
    /\ pc = "exited"
    /\ exit_status = <<1>>
    /\ calls = <<>>
    /\ exec_calls = <<>>
    /\ sys_stdout = <<>>
    /\ \E i \in 1..Len(sys_stderr) : Body(sys_stderr[i]) = UsageText

\* C10: nothing of the remote output is written before stdout and then stderr
\* have been read; a failure of exec_command or of a read leaves the Error:
\* line as the only thing written, a failure of the exit status comes after
\* the remote output was written.
C10_OutputAfterBothReads ==
  /\ \A i \in 1..Len(calls) :
       calls[i] = "stderr.read" => \E j \in 1..(i - 1) : calls[j] = "stdout.read"
  /\ (Invoked /\ ("stderr.read" \notin Range(calls) \/ raised_at = "read_err")) =>
       /\ sys_stdout = <<>>
       /\ RemoteErr = <<>>
  /\ (Handled /\ raised_at \in {"exec", "read_out", "read_err"}) =>
       /\ sys_stdout = <<>>
       /\ sys_stderr = << <<"E", "r", "r", "o", "r", ":", " ">> \o exc \o <<NL>> >>
  /\ raised_at = "status" =>
       /\ output /= <<>> => sys_stdout /= <<>>
       /\ (\E l \in Range(Split(error, NL)) : ~ IsSudoLine(l) /\ error /= <<>>)
            => RemoteErr /= <<>>

C10_Witness ==
  /\ raised_at = "status"
  /\ pc = "finally"
  /\ Len(sys_stdout) = 1
  /\ Len(sys_stderr) = 2
  /\ IsErrorEntry(sys_stderr[2])

=============================================================================
